---- MODULE Spec2Model ----
(***************************************************************************)
(* A model of absl::optional_ref<T> (absl/types/optional_ref.h): a         *)
(* non-owning, nullable view that stores one address, ptr_.                *)
(*                                                                         *)
(* Memory is a set of addresses 1..NumObjects holding values.  An address  *)
(* is a plain object or the storage of a std::optional container.  Every   *)
(* object and every optional_ref has a static C++ type (class and const    *)
(* qualification); the constructors are gated by pointer convertibility    *)
(* between those types.  No operation of the header takes more than two    *)
(* optional_ref operands, named a and b as in the header's operators, so   *)
(* the program has the two optional_ref variables "a" and "b".             *)
(*                                                                         *)
(* Every member function and free operator of the header is an operator    *)
(* that yields the SET of outcomes the call can have: one outcome for      *)
(* defined behaviour, several where the C++ is undefined.  An action calls *)
(* the operator, picks one of its outcomes and records the call in `last`. *)
(***************************************************************************)
EXTENDS Integers, Sequences, FiniteSets, TLC

\* ------------------------------------------------------------------ bounds
NumObjects == 3
MaxVal == 1

\* ------------------------------------------------------------------ memory
nullptr == 0

Addrs == 1..NumObjects
\* Every third address is the storage of a std::optional, the others are
\* plain objects.
Optionals == {a \in Addrs : a % 3 = 0}
Objects == Addrs \ Optionals
Slots == {"a", "b"}
Values == 0..MaxVal

\* ------------------------------------------------------------------- types
Types == [cls : {"TestInterface", "TestDerivedClass"}, isConst : BOOLEAN]

\* The n-th declared type, cycling through the four combinations.
TypeOf(n) ==
    [cls     |-> IF n % 2 = 1 THEN "TestDerivedClass" ELSE "TestInterface",
     isConst |-> n % 4 = 0]

AddConst(U) == [U EXCEPT !.isConst = TRUE]

\* Mutant: related types convert in either direction.
EnableIfConvertibleFrom_either_way(U, T) == U.isConst => T.isConst
\* std::is_convertible_v<U*, T*>: identity, adding const, derived to base.
EnableIfConvertibleFrom(U, T) ==
    /\ U.isConst => T.isConst
    /\ \/ U.cls = T.cls
       \/ U.cls = "TestDerivedClass" /\ T.cls = "TestInterface"

VARIABLES
    hardened,     \* build: ABSL_OPTION_HARDENED active
    exceptions,   \* build: ABSL_HAVE_EXCEPTIONS
    mem,          \* address -> value stored there
    opts,         \* container -> whether it holds a value
    refs,         \* live optional_ref variables: slot -> [T, ptr]
    last,         \* the last call: [op, args, out]
    threads       \* reader thread -> [pc, op, arg, ptr, out]

vars == <<hardened, exceptions, mem, opts, refs, last, threads>>

\* Declared type of the plain object at address a.
ObjType(a) == TypeOf(a)
\* Container k is a std::optional<OptValueType(k)>, declared const or not.
OptValueType(k) == TypeOf(k)
OptIsConst(k) == k % 2 = 0
\* Value an object is initialised with.
InitialValue(a) == a % (MaxVal + 1)

\* &*input for container k: the container's storage.
OptStorage(k) == k
\* std::addressof(input): a reference is the object it is bound to.
addressof(input) == input.obj
LvalueOf(a) == [obj |-> a]

\* Addresses of objects that exist, and the static type of each.
LiveAddrs == Objects \cup {OptStorage(k) : k \in {j \in Optionals : opts[j]}}
PointeeType(a) ==
    IF a \in Objects THEN ObjType(a)
    ELSE IF OptIsConst(a) THEN AddConst(OptValueType(a)) ELSE OptValueType(a)

\* ---------------------------------------------------------------- outcomes
\* A call returns v; copied tells whether it ran the copy (or move)
\* constructor of the referent's type on the referent.
Ret(v) == [kind |-> "ret", val |-> v, copied |-> FALSE]
\* A call returns, by value, an object copy-constructed from the referent.
RetCopy(v) == [kind |-> "ret", val |-> v, copied |-> TRUE]
BadOptionalAccess == [kind |-> "bad_optional_access"]
Terminate == [kind |-> "terminate"]
Abort == [kind |-> "abort"]
Crash == [kind |-> "crash"]

\* S, then T: T runs only where S returned; the other outcomes of S end the
\* call.
AndThen(S, T) ==
    {o \in S : o.kind # "ret"} \cup (IF \E o \in S : o.kind = "ret" THEN T ELSE {})

\* *p.  Reading through the null address is undefined: the build may crash
\* or yield any value.
Deref(p) ==
    IF p # nullptr THEN {Ret(mem[p])}
    ELSE {Crash} \cup {Ret(g) : g \in Values}

\* [[noreturn]] FailedBoundsCheckAbort(): the process aborts.
FailedBoundsCheckAbort == {Abort}

\* ABSL_HARDENING_ASSERT(cond): aborts in a hardened build when cond is
\* false; is compiled out otherwise.
ABSL_HARDENING_ASSERT(cond) ==
    IF hardened /\ ~cond THEN FailedBoundsCheckAbort ELSE {Ret(TRUE)}

\* std::optional<T>().value(): throws std::bad_optional_access, or ends the
\* program where exceptions are not available.
StdEmptyOptionalValue == IF exceptions THEN {BadOptionalAccess} ELSE {Terminate}

\* ------------------------------------------------------------ constructors
\* Mutant: ptr_ is left without an initialiser.
optional_ref_default_uninitialised(T) == [T |-> T, ptr |-> 1]
optional_ref_default(T) == [T |-> T, ptr |-> nullptr]
optional_ref_nullopt(T) == [T |-> T, ptr |-> nullptr]
\* Mutant: an object holding a null pointer value is taken as absent.
optional_ref_value_null_as_absent(T, input) ==
    [T |-> T, ptr |-> IF mem[input.obj] = nullptr THEN nullptr ELSE addressof(input)]
\* Mutant: the view binds to a copy of the argument.
optional_ref_value_of_copy(T, input) ==
    [T |-> T, ptr |-> CHOOSE c \in Addrs : c # addressof(input)]
optional_ref_value(T, input) == [T |-> T, ptr |-> addressof(input)]
optional_ref_const_optional(T, k) ==
    [T |-> T, ptr |-> IF opts[k] THEN OptStorage(k) ELSE nullptr]
\* Mutant: the container's storage is taken without asking has_value().
optional_ref_optional_unchecked(T, k) == [T |-> T, ptr |-> OptStorage(k)]
optional_ref_optional(T, k) ==
    [T |-> T, ptr |-> IF opts[k] THEN OptStorage(k) ELSE nullptr]
\* Types of a pointer argument: a pointer expression (a variable, &val), or
\* the literal nullptr.
PointerArgTypes == {"T*", "nullptr_t"}
\* Mutant: no deleted constructor, the literal converts to a null T*.
PointerCtorOverload_no_delete(argType) == "optional_ref(T*)"
\* Overload resolution for a pointer argument: std::nullptr_t matches the
\* deleted constructor exactly, ahead of its conversion to T*.
PointerCtorOverload(argType) ==
    IF argType = "nullptr_t" THEN "deleted" ELSE "optional_ref(T*)"

\* Mutant: the argument is dropped.
optional_ref_pointer_dropped(T, input) == [T |-> T, ptr |-> nullptr]
optional_ref_pointer(T, input) == [T |-> T, ptr |-> input]

\* ---------------------------------------------------------------- members
as_pointer(r) == r.ptr
\* Mutant: every instance reports a value.
has_value_always(r) == TRUE
has_value(r) == r.ptr # nullptr

optional_ref_copy(src) == [T |-> src.T, ptr |-> src.ptr]
\* Mutant: the converted view does not take the source's address.
optional_ref_convert_unbound(T, input) == [T |-> T, ptr |-> nullptr]
optional_ref_convert(T, input) == [T |-> T, ptr |-> as_pointer(input)]

\* Mutant: value() returns T by value instead of T&.
value_by_value(r) ==
    IF r.ptr # nullptr
    THEN {IF o.kind = "ret" THEN RetCopy(o.val) ELSE o : o \in Deref(r.ptr)}
    ELSE AndThen(StdEmptyOptionalValue, Deref(r.ptr))
\* Mutant: no std::optional<T>().value() before the dereference.
value_unchecked(r) == Deref(r.ptr)
value(r) ==
    IF r.ptr # nullptr THEN Deref(r.ptr)
    ELSE AndThen(StdEmptyOptionalValue, Deref(r.ptr))

\* static_cast<T>(u) for a default of a wider unsigned type U: T holds the
\* values 0..MaxVal and the conversion reduces modulo their number.
static_cast_T(u) == u % (MaxVal + 1)
\* Defaults a caller can pass to value_or: values of the wider type U.
Defaults == 0..(2 * MaxVal + 1)

\* Mutant: the default is returned whatever the state.
value_or_always_default(r, default_value) == {Ret(static_cast_T(default_value))}
\* The return type is T: the Present branch copy-constructs it from *ptr_.
value_or(r, default_value) ==
    IF r.ptr # nullptr
    THEN {IF o.kind = "ret" THEN RetCopy(o.val) ELSE o : o \in Deref(r.ptr)}
    ELSE {Ret(static_cast_T(default_value))}

\* Mutant: no ABSL_HARDENING_ASSERT.
OperatorStar_unchecked(r) == Deref(r.ptr)
OperatorStar(r) ==
    AndThen(ABSL_HARDENING_ASSERT(r.ptr # nullptr), Deref(r.ptr))

OperatorArrow(r) ==
    AndThen(ABSL_HARDENING_ASSERT(r.ptr # nullptr), {Ret(r.ptr)})

\* U of as_optional<U>(): std::decay_t<T>, which owns its value, or a view
\* type such as std::string_view, which is constructed from the referent and
\* keeps referring to it.
OptionalValueTypes == {"decay_t", "string_view"}
StdNullopt == [has |-> FALSE]
\* A std::optional<U> holding a U that owns the value v.
StdOptional(v) == [has |-> TRUE, val |-> v]
\* A std::optional<U> holding a view U of the object at address p.
StdOptionalView(p) == [has |-> TRUE, at |-> p]
\* The value a held std::optional<U> presents when it is read.
ContainedValue(c) == IF "val" \in DOMAIN c THEN c.val ELSE mem[c.at]

\* Comparisons of std::optional: with std::nullopt, with a value, and of two
\* containers (equal when both are empty, or both hold values that are equal).
StdOptionalEqNullopt(x) == ~x.has
StdOptionalEqValue(x, v) == IF x.has THEN ContainedValue(x) = v ELSE FALSE
StdOptionalEq(x, y) ==
    IF x.has # y.has THEN FALSE
    ELSE IF ~x.has THEN TRUE
    ELSE ContainedValue(x) = ContainedValue(y)

\* Mutant: the container holds a value-initialised U, not the referent's value.
as_optional_value_initialised(r, U) ==
    IF r.ptr = nullptr THEN {Ret(StdNullopt)} ELSE {RetCopy(StdOptional(0))}
\* Mutant: the container refers to the referent for every U.
as_optional_shallow(r, U) ==
    IF r.ptr = nullptr THEN {Ret(StdNullopt)} ELSE {Ret(StdOptionalView(r.ptr))}
as_optional(r, U) ==
    IF r.ptr = nullptr THEN {Ret(StdNullopt)}
    ELSE IF U = "string_view" THEN {Ret(StdOptionalView(r.ptr))}
    ELSE {IF o.kind = "ret" THEN RetCopy(StdOptional(o.val)) ELSE o :
          o \in Deref(r.ptr)}

\* ------------------------------------------------------------- comparisons
EqRefNullopt(a) == {Ret(~has_value(a))}
\* Mutant: the negation is lost.
EqNulloptRef_not_negated(b) == {Ret(has_value(b))}
EqNulloptRef(b) == {Ret(~has_value(b))}
\* Mutant: the body of operator== is pasted into operator!=.
NeRefNullopt_as_equality(a) == {Ret(~has_value(a))}
NeRefNullopt(a) == {Ret(has_value(a))}
NeNulloptRef(b) == {Ret(has_value(b))}

\* Mutant: b is dereferenced without asking has_value().
EqValRef_unchecked(a, b) ==
    {IF o.kind = "ret" THEN Ret(a = o.val) ELSE o : o \in OperatorStar(b)}
\* operator==(const T& a, optional_ref<U> b)
EqValRef(a, b) ==
    IF has_value(b)
    THEN {IF o.kind = "ret" THEN Ret(a = o.val) ELSE o : o \in OperatorStar(b)}
    ELSE {Ret(FALSE)}

\* Mutant: no forwarding to b == a; an Empty view equals every value.
EqRefVal_empty_equals_all(a, b) ==
    IF has_value(a) THEN EqValRef(b, a) ELSE {Ret(TRUE)}
\* operator==(optional_ref<T> a, const U& b)
EqRefVal(a, b) == EqValRef(b, a)

\* Mutant: a is dereferenced without asking has_value().
EqRefRef_unchecked(a, b) ==
    UNION {IF o.kind = "ret" THEN EqValRef(o.val, b) ELSE {o} :
           o \in OperatorStar(a)}
\* Mutant: the stored addresses are compared.
EqRefRef_by_address(a, b) == {Ret(a.ptr = b.ptr)}
\* operator==(optional_ref<T> a, optional_ref<U> b)
EqRefRef(a, b) ==
    IF has_value(a)
    THEN UNION {IF o.kind = "ret" THEN EqValRef(o.val, b) ELSE {o} :
                o \in OperatorStar(a)}
    ELSE {Ret(~has_value(b))}

Not(S) == {IF o.kind = "ret" THEN Ret(~o.val) ELSE o : o \in S}
NeRefRef(a, b) == Not(EqRefRef(a, b))
NeRefVal(a, b) == Not(EqRefVal(a, b))
NeValRef(a, b) == Not(EqValRef(a, b))

\* ------------------------------------------------------------------ state
\* The call just made: the operation, its operands and its outcome.
Call(op, args, out) == last' = [op |-> op, args |-> args, out |-> out]

Halting == {"abort", "terminate", "crash"}
\* No call so far has ended the process.
Running == last.out.kind \notin Halting

\* Threads that read the view in slot "a" without coordination.
Threads == {"t1", "t2"}
\* A reader that has made no call yet.
NotStarted ==
    [pc |-> "ready", op |-> "none", arg |-> 0, ptr |-> nullptr, out |-> Ret(TRUE)]

Init ==
    /\ hardened \in BOOLEAN
    /\ exceptions \in BOOLEAN
    /\ mem = [a \in Addrs |-> InitialValue(a)]
    /\ opts \in [Optionals -> BOOLEAN]
    /\ refs = << >>
    /\ last = [op |-> "start", args |-> << >>, out |-> Ret(TRUE)]
    /\ threads = [t \in Threads |-> NotStarted]

\* Mutant: assignment is allowed, a live variable is reseated.
ConstructOrAssign(i, r) ==
    refs' = [j \in DOMAIN refs \cup {i} |-> IF j = i THEN r ELSE refs[j]]
\* A new optional_ref variable in slot i.  There is no assignment: a live
\* variable is never constructed into.
Construct(i, r) ==
    /\ i \notin DOMAIN refs
    /\ refs' = refs @@ (i :> r)

Frame == UNCHANGED <<hardened, exceptions, mem, opts, threads>>

ConstructDefault(i, T) ==
    /\ Running
    /\ Construct(i, optional_ref_default(T))
    /\ Call("optional_ref()", <<i>>, Ret(i))
    /\ Frame

ConstructNullopt(i, T) ==
    /\ Running
    /\ Construct(i, optional_ref_nullopt(T))
    /\ Call("optional_ref(nullopt)", <<i>>, Ret(i))
    /\ Frame

ConstructFromValue(i, T, a) ==
    /\ Running
    /\ EnableIfConvertibleFrom(ObjType(a), T)
    /\ Construct(i, optional_ref_value(T, LvalueOf(a)))
    /\ Call("optional_ref(T&)", <<i, a>>, Ret(i))
    /\ Frame

ConstructFromConstOptional(i, T, k) ==
    /\ Running
    /\ EnableIfConvertibleFrom(AddConst(OptValueType(k)), T)
    /\ Construct(i, optional_ref_const_optional(T, k))
    /\ Call("optional_ref(const optional&)", <<i, k>>, Ret(i))
    /\ Frame

ConstructFromOptional(i, T, k) ==
    /\ Running
    /\ ~OptIsConst(k)
    /\ EnableIfConvertibleFrom(OptValueType(k), T)
    /\ Construct(i, optional_ref_optional(T, k))
    /\ Call("optional_ref(optional&)", <<i, k>>, Ret(i))
    /\ Frame

\* The argument is an expression of type argType whose value is p.  A call
\* that selects a deleted constructor is ill-formed: no program contains it.
ConstructFromPointer(i, T, p, argType) ==
    /\ Running
    /\ argType = "nullptr_t" => p = nullptr
    /\ PointerCtorOverload(argType) # "deleted"
    /\ p # nullptr => EnableIfConvertibleFrom(PointeeType(p), T)
    /\ Construct(i, optional_ref_pointer(T, p))
    /\ Call("optional_ref(T*)", <<i, p, argType>>, Ret(i))
    /\ Frame

Copy(i, j) ==
    /\ Running
    /\ j \in DOMAIN refs
    /\ Construct(i, optional_ref_copy(refs[j]))
    /\ Call("optional_ref(const optional_ref&)", <<i, j>>, Ret(i))
    /\ Frame

Convert(i, T, j) ==
    /\ Running
    /\ j \in DOMAIN refs
    /\ T # refs[j].T
    /\ EnableIfConvertibleFrom(refs[j].T, T)
    /\ Construct(i, optional_ref_convert(T, refs[j]))
    /\ Call("optional_ref(optional_ref<U>)", <<i, j>>, Ret(i))
    /\ Frame

\* Mutant: the view owns its referent and clears it when it goes out of scope.
Destroy_owning(i) ==
    /\ Running
    /\ i \in DOMAIN refs
    /\ refs' = [j \in DOMAIN refs \ {i} |-> refs[j]]
    /\ Call("~optional_ref", <<i>>, Ret(i))
    /\ mem' = IF refs[i].ptr # nullptr
              THEN [mem EXCEPT ![refs[i].ptr] = (mem[refs[i].ptr] + 1) % (MaxVal + 1)]
              ELSE mem
    /\ UNCHANGED <<hardened, exceptions, opts, threads>>
\* The variable goes out of scope; the destructor is trivial.
Destroy(i) ==
    /\ Running
    /\ i \in DOMAIN refs
    /\ refs' = [j \in DOMAIN refs \ {i} |-> refs[j]]
    /\ Call("~optional_ref", <<i>>, Ret(i))
    /\ Frame

\* A const member function or a comparison: the operands are read only.
Observe(op, args, outs) ==
    /\ Running
    /\ \E o \in outs : Call(op, args, o)
    /\ UNCHANGED refs
    /\ Frame

HasValue(i) ==
    i \in DOMAIN refs /\ Observe("has_value", <<i>>, {Ret(has_value(refs[i]))})
Value(i) == i \in DOMAIN refs /\ Observe("value", <<i>>, value(refs[i]))
ValueOr(i, d) ==
    i \in DOMAIN refs /\ Observe("value_or", <<i, d>>, value_or(refs[i], d))
Star(i) == i \in DOMAIN refs /\ Observe("operator*", <<i>>, OperatorStar(refs[i]))
Arrow(i) == i \in DOMAIN refs /\ Observe("operator->", <<i>>, OperatorArrow(refs[i]))
AsPointer(i) ==
    i \in DOMAIN refs /\ Observe("as_pointer", <<i>>, {Ret(as_pointer(refs[i]))})
AsOptional(i, U) ==
    i \in DOMAIN refs /\ Observe("as_optional", <<i, U>>, as_optional(refs[i], U))

CompareRefNullopt(i) ==
    i \in DOMAIN refs /\ Observe("ref==nullopt", <<i>>, EqRefNullopt(refs[i]))
CompareNulloptRef(i) ==
    i \in DOMAIN refs /\ Observe("nullopt==ref", <<i>>, EqNulloptRef(refs[i]))
CompareNeRefNullopt(i) ==
    i \in DOMAIN refs /\ Observe("ref!=nullopt", <<i>>, NeRefNullopt(refs[i]))
CompareNeNulloptRef(i) ==
    i \in DOMAIN refs /\ Observe("nullopt!=ref", <<i>>, NeNulloptRef(refs[i]))
CompareRefRef(i, j) ==
    /\ i \in DOMAIN refs /\ j \in DOMAIN refs
    /\ Observe("ref==ref", <<i, j>>, EqRefRef(refs[i], refs[j]))
CompareNeRefRef(i, j) ==
    /\ i \in DOMAIN refs /\ j \in DOMAIN refs
    /\ Observe("ref!=ref", <<i, j>>, NeRefRef(refs[i], refs[j]))
CompareValRef(v, i) ==
    i \in DOMAIN refs /\ Observe("val==ref", <<v, i>>, EqValRef(v, refs[i]))
CompareRefVal(i, v) ==
    i \in DOMAIN refs /\ Observe("ref==val", <<i, v>>, EqRefVal(refs[i], v))
CompareNeValRef(v, i) ==
    i \in DOMAIN refs /\ Observe("val!=ref", <<v, i>>, NeValRef(v, refs[i]))
CompareNeRefVal(i, v) ==
    i \in DOMAIN refs /\ Observe("ref!=val", <<i, v>>, NeRefVal(refs[i], v))

Next ==
    \/ \E i \in Slots, T \in Types : ConstructDefault(i, T)
    \/ \E i \in Slots, T \in Types : ConstructNullopt(i, T)
    \/ \E i \in Slots, T \in Types, a \in Objects : ConstructFromValue(i, T, a)
    \/ \E i \in Slots, T \in Types, k \in Optionals : ConstructFromConstOptional(i, T, k)
    \/ \E i \in Slots, T \in Types, k \in Optionals : ConstructFromOptional(i, T, k)
    \/ \E i \in Slots, T \in Types, p \in LiveAddrs \cup {nullptr}, argType \in PointerArgTypes :
          ConstructFromPointer(i, T, p, argType)
    \/ \E i \in Slots, j \in Slots : Copy(i, j)
    \/ \E i \in Slots, T \in Types, j \in Slots : Convert(i, T, j)
    \/ \E i \in Slots : Destroy(i)
    \/ \E i \in Slots : HasValue(i)
    \/ \E i \in Slots : Value(i)
    \/ \E i \in Slots, d \in Defaults : ValueOr(i, d)
    \/ \E i \in Slots : Star(i)
    \/ \E i \in Slots : Arrow(i)
    \/ \E i \in Slots : AsPointer(i)
    \/ \E i \in Slots, U \in OptionalValueTypes : AsOptional(i, U)
    \/ \E i \in Slots : CompareRefNullopt(i)
    \/ \E i \in Slots : CompareNulloptRef(i)
    \/ \E i \in Slots : CompareNeRefNullopt(i)
    \/ \E i \in Slots : CompareNeNulloptRef(i)
    \/ \E i \in Slots, j \in Slots : CompareRefRef(i, j)
    \/ \E i \in Slots, j \in Slots : CompareNeRefRef(i, j)
    \/ \E i \in Slots, v \in Values : CompareValRef(v, i)
    \/ \E i \in Slots, v \in Values : CompareRefVal(i, v)
    \/ \E i \in Slots, v \in Values : CompareNeValRef(v, i)
    \/ \E i \in Slots, v \in Values : CompareNeRefVal(i, v)

Spec == Init /\ [][Next]_vars

\* The owner of a non-const object writes v to it.  This is no call on an
\* optional_ref: what the caller got from the last call stays in its hands.
Store(a, v) ==
    /\ Running
    /\ a \in LiveAddrs
    /\ ~PointeeType(a).isConst
    /\ v # mem[a]
    /\ mem' = [mem EXCEPT ![a] = v]
    /\ UNCHANGED <<hardened, exceptions, opts, refs, last, threads>>

\* One optional_ref over objects their owner keeps writing to.
NextStore ==
    \/ \E T \in Types : ConstructNullopt("a", T)
    \/ \E T \in Types, a \in Objects : ConstructFromValue("a", T, a)
    \/ \E T \in Types, k \in Optionals : ConstructFromOptional("a", T, k)
    \/ Destroy("a")
    \/ \E U \in OptionalValueTypes : AsOptional("a", U)
    \/ \E a \in Addrs, v \in Values : Store(a, v)

SpecStore == Init /\ [][NextStore]_vars

\* ---------------------------------------------------------------- readers
\* The calls a reader makes on the shared view: a copy, an observer or a
\* comparison, with its argument (0 where it takes none).
ThreadCalls ==
    {<<op, 0>> : op \in {"optional_ref(const optional_ref&)", "has_value",
                         "as_pointer", "value", "ref==nullopt"}}
        \cup {<<"value_or", d>> : d \in Defaults}
        \cup {<<"ref==val", v>> : v \in Values}

\* The call op(arg) on the view r, as one thread alone runs it.
Invoke(op, arg, r) ==
    CASE op = "optional_ref(const optional_ref&)" ->
             {Ret(as_pointer(optional_ref_copy(r)))}
      [] op = "has_value" -> {Ret(has_value(r))}
      [] op = "as_pointer" -> {Ret(as_pointer(r))}
      [] op = "value" -> value(r)
      [] op = "value_or" -> value_or(r, arg)
      [] op = "ref==nullopt" -> EqRefNullopt(r)
      [] op = "ref==val" -> EqRefVal(r, arg)

\* Mutant: copying moves from the source and leaves it empty.
CopiedFrom_moved(src) == [src EXCEPT !.ptr = nullptr]
\* What the copy constructor leaves in its source: the parameter is a const
\* reference and the copy is member-wise.
CopiedFrom(src) == src

\* No reader has ended the process.
ThreadsRunning == \A t \in Threads : threads[t].out.kind \notin Halting

\* Reader t enters a call on the shared view; what it loaded and got in its
\* previous call is gone.
ThreadCall(t, op, arg) ==
    /\ ThreadsRunning
    /\ "a" \in DOMAIN refs
    /\ threads[t].pc = "ready"
    /\ threads' = [threads EXCEPT ![t] = [NotStarted EXCEPT !.pc = "called", !.op = op, !.arg = arg]]
    /\ UNCHANGED <<hardened, exceptions, mem, opts, refs, last>>

\* Reader t loads the member ptr_ of the shared view.
ThreadLoad(t) ==
    /\ ThreadsRunning
    /\ threads[t].pc = "called"
    /\ threads' = [threads EXCEPT ![t] = [@ EXCEPT !.pc = "loaded", !.ptr = refs["a"].ptr]]
    /\ UNCHANGED <<hardened, exceptions, mem, opts, refs, last>>

\* Reader t finishes its call with the address it loaded, reading the
\* referent where the call does; a copy leaves its source as CopiedFrom says.
ThreadReturn(t) ==
    /\ ThreadsRunning
    /\ threads[t].pc = "loaded"
    /\ \E o \in Invoke(threads[t].op, threads[t].arg,
                        [T |-> refs["a"].T, ptr |-> threads[t].ptr]) :
          threads' = [threads EXCEPT ![t] = [@ EXCEPT !.pc = "ready", !.out = o]]
    /\ refs' = IF threads[t].op = "optional_ref(const optional_ref&)"
               THEN [refs EXCEPT !["a"] = CopiedFrom(refs["a"])]
               ELSE refs
    /\ UNCHANGED <<hardened, exceptions, mem, opts, last>>

\* A view is constructed, then the readers use it concurrently; nobody
\* writes to the referent.
NextThreads ==
    \/ \E T \in Types : ConstructNullopt("a", T)
    \/ \E T \in Types, a \in Objects : ConstructFromValue("a", T, a)
    \/ \E t \in Threads, c \in ThreadCalls : ThreadCall(t, c[1], c[2])
    \/ \E t \in Threads : ThreadLoad(t)
    \/ \E t \in Threads : ThreadReturn(t)

SpecThreads == Init /\ [][NextThreads]_vars

TypeOK ==
    /\ hardened \in BOOLEAN
    /\ exceptions \in BOOLEAN
    /\ mem \in [Addrs -> Values]
    /\ opts \in [Optionals -> BOOLEAN]
    /\ DOMAIN refs \subseteq Slots
    /\ \A t \in Threads :
          /\ threads[t].pc \in {"ready", "called", "loaded"}
          /\ threads[t].ptr \in Addrs \cup {nullptr}
    /\ \A i \in DOMAIN refs :
          refs[i].T \in Types /\ refs[i].ptr \in LiveAddrs \cup {nullptr}

\* ------------------------------------------------------------------ claims
Empty(r) == r.ptr = nullptr
Present(r) == r.ptr # nullptr
Referent(r) == mem[r.ptr]
EmptyAccess == {"bad_optional_access", "terminate"}
\* The optional_ref the last call constructed or was invoked on.
Self == refs[last.args[1]]

\* C1: while an optional_ref is alive no step of the program changes its
\* state: neither Empty <-> Present nor the stored address.
C1_StateFixedAtConstruction ==
    [][\A i \in DOMAIN refs \cap DOMAIN refs' : refs'[i] = refs[i]]_vars
\* A Present instance has been copied from while the other variable is alive.
C1_Witness ==
    /\ last.op = "optional_ref(const optional_ref&)"
    /\ Present(refs[last.args[2]])
    /\ DOMAIN refs = Slots

\* C2: an instance constructed from the object v is Present, *ref and
\* value() yield v's value and as_pointer() is v's own address.
C2_FromValueIsPresent ==
    last.op = "optional_ref(T&)" =>
        LET v == last.args[2]
        IN /\ has_value(Self)
           /\ OperatorStar(Self) = {Ret(mem[v])}
           /\ value(Self) = {Ret(mem[v])}
           /\ as_pointer(Self) = v
C2_Witness == last.op = "optional_ref(T&)" /\ last.args[2] = 2

\* C3: a default-constructed instance and one constructed from std::nullopt
\* are Empty: no value, null address, equal to std::nullopt.
C3_DefaultAndNulloptAreEmpty ==
    last.op \in {"optional_ref()", "optional_ref(nullopt)"} =>
        /\ ~has_value(Self)
        /\ as_pointer(Self) = nullptr
        /\ EqRefNullopt(Self) = {Ret(TRUE)}
        /\ EqNulloptRef(Self) = {Ret(TRUE)}
C3_Witness == last.op = "optional_ref()"

\* C4: an instance constructed from a std::optional mirrors it: same
\* has_value(); the address of the contained value when there is one; Empty
\* and equal to std::nullopt when there is none.
C4_FromOptionalMirrors ==
    last.op \in {"optional_ref(const optional&)", "optional_ref(optional&)"} =>
        LET c == last.args[2]
        IN /\ has_value(Self) = opts[c]
           /\ opts[c] => as_pointer(Self) = OptStorage(c)
           /\ ~opts[c] => Empty(Self) /\ EqRefNullopt(Self) = {Ret(TRUE)}
C4_Witness == last.op = "optional_ref(optional&)" /\ ~opts[last.args[2]]

\* C5: an instance constructed from the address p is Present iff p is not
\* null and as_pointer() is p; from a null p it equals std::nullopt.
C5_FromPointer ==
    last.op = "optional_ref(T*)" =>
        LET p == last.args[2]
        IN /\ has_value(Self) <=> p # nullptr
           /\ as_pointer(Self) = p
           /\ p = nullptr => EqRefNullopt(Self) = {Ret(TRUE)}
C5_Witness == last.op = "optional_ref(T*)" /\ last.args[2] # nullptr

\* C6: value() on an Empty instance throws std::bad_optional_access or
\* terminates, per build, and never returns; on a Present instance it
\* returns the referent; no other call throws or terminates that way.
C6_EmptyAccessOnlyFromValue ==
    /\ last.op = "value" =>
          IF Present(Self) THEN last.out = Ret(Referent(Self))
          ELSE last.out = IF exceptions THEN BadOptionalAccess ELSE Terminate
    /\ last.op # "value" => last.out.kind \notin EmptyAccess
C6_Witness == last.op = "value" /\ Empty(Self) /\ last.out = BadOptionalAccess

\* C7: in a hardened build operator* and operator-> abort on an Empty
\* instance, after which the process takes no step; on a Present instance they
\* return the referent and the stored address.
C7_HardenedDereferenceAborts ==
    hardened =>
        /\ last.op = "operator*" =>
              last.out = IF Empty(Self) THEN Abort ELSE Ret(Referent(Self))
        /\ last.op = "operator->" =>
              last.out = IF Empty(Self) THEN Abort ELSE Ret(Self.ptr)
        /\ last.out = Abort =>
              /\ last.op \in {"operator*", "operator->"}
              /\ ~ENABLED Next
C7_Witness == hardened /\ last.op = "operator*" /\ Empty(Self) /\ last.out = Abort

\* C8: a == b for two instances is true iff both are Empty, or both are
\* Present and their referents are equal; the addresses play no part.
C8_RefEqualityIsByValue ==
    last.op = "ref==ref" =>
        LET a == refs[last.args[1]]
            b == refs[last.args[2]]
        IN last.out = Ret(\/ Empty(a) /\ Empty(b)
                          \/ /\ Present(a) /\ Present(b)
                             /\ Referent(a) = Referent(b))
\* Two Present instances at different addresses compare equal.
C8_Witness ==
    /\ last.op = "ref==ref"
    /\ Present(refs[last.args[1]]) /\ Present(refs[last.args[2]])
    /\ refs[last.args[1]].ptr # refs[last.args[2]].ptr
    /\ last.out = Ret(TRUE)

\* C9: v == ref and ref == v are true iff ref is Present and v equals the
\* referent; both are false against an Empty ref.
C9_ValueEquality ==
    /\ last.op = "val==ref" =>
          LET r == refs[last.args[2]]
          IN last.out = Ret(Present(r) /\ last.args[1] = Referent(r))
    /\ last.op = "ref==val" =>
          LET r == refs[last.args[1]]
          IN last.out = Ret(Present(r) /\ last.args[2] = Referent(r))
C9_Witness ==
    last.op = "ref==val" /\ Empty(refs[last.args[1]]) /\ last.out = Ret(FALSE)

\* C10: ref == std::nullopt and std::nullopt == ref are true iff ref is Empty.
C10_NulloptEquality ==
    last.op \in {"ref==nullopt", "nullopt==ref"} => last.out = Ret(Empty(Self))
C10_Witness == last.op = "nullopt==ref" /\ Present(Self) /\ last.out = Ret(FALSE)

\* C11: every operator!= returns the negation of what the operator== on the
\* same operands returns, in each of the five operand pairs.
C11_InequalityIsNegation ==
    /\ last.op = "ref!=nullopt" => EqRefNullopt(Self) = {Ret(~last.out.val)}
    /\ last.op = "nullopt!=ref" => EqNulloptRef(Self) = {Ret(~last.out.val)}
    /\ last.op = "ref!=ref" =>
          EqRefRef(refs[last.args[1]], refs[last.args[2]]) = {Ret(~last.out.val)}
    /\ last.op = "ref!=val" =>
          EqRefVal(refs[last.args[1]], last.args[2]) = {Ret(~last.out.val)}
    /\ last.op = "val!=ref" =>
          EqValRef(last.args[1], refs[last.args[2]]) = {Ret(~last.out.val)}
C11_Witness == last.op = "ref!=nullopt" /\ Present(Self) /\ last.out = Ret(TRUE)

\* C12: value_or(d) returns the referent's value on a Present instance and d
\* converted to T on an Empty one; it returns in both states.
C12_ValueOr ==
    last.op = "value_or" =>
        /\ last.out.kind = "ret"
        /\ last.out.val = IF Present(Self) THEN Referent(Self)
                          ELSE static_cast_T(last.args[2])
\* An Empty instance returns a default that the conversion changed.
C12_Witness ==
    /\ last.op = "value_or" /\ Empty(Self)
    /\ last.args[2] > MaxVal /\ last.out.val # last.args[2]

\* A step that is a call of as_optional: only a write by the owner changes mem.
AsOptionalCall == last'.op = "as_optional" /\ mem' = mem
\* The container the last as_optional returned stays in the caller's hands.
HoldsOptional ==
    /\ last.op = "as_optional" /\ last'.op = "as_optional"
    /\ last'.args = last.args /\ last'.out = last.out
    /\ last.out.val.has
AsOptionalResult ==
    AsOptionalCall =>
        LET r == refs[last'.args[1]]
        IN /\ last'.out.kind = "ret"
           /\ Empty(r) => last'.out.val = StdNullopt
           /\ Present(r) =>
                 last'.out.val.has /\ ContainedValue(last'.out.val) = Referent(r)

\* C13 as stated: as_optional() yields an empty container on Empty and a
\* container holding a value equal to the referent on Present, and for every
\* U that value does not change when the referent is written afterwards.
C13_IndependentForEveryU ==
    [][/\ AsOptionalResult
       /\ HoldsOptional =>
             ContainedValue(last.out.val)' = ContainedValue(last.out.val)]_vars

\* C13, amended: as_optional() yields an empty container on Empty and a
\* container holding a value equal to the referent on Present; when U owns
\* its value (the default std::decay_t<T>) the value does not change when the
\* referent is written afterwards.
C13_AsOptional ==
    [][/\ AsOptionalResult
       /\ (HoldsOptional /\ last.args[2] = "decay_t") =>
             ContainedValue(last.out.val)' = ContainedValue(last.out.val)]_vars
\* The caller holds an owning copy and the referent has been written since.
C13_Witness ==
    /\ last.op = "as_optional" /\ last.args[2] = "decay_t"
    /\ "a" \in DOMAIN refs /\ Present(refs["a"])
    /\ last.out.val.has
    /\ ContainedValue(last.out.val) # Referent(refs["a"])

\* A step that copy-constructs or converts a view into a new variable.
CopyOrConvertCall ==
    /\ last'.op \in {"optional_ref(const optional_ref&)", "optional_ref(optional_ref<U>)"}
    /\ DOMAIN refs' # DOMAIN refs

\* C14: copying or converting a view yields a view with the source's address
\* and state (has_value preserved, Empty gives Empty), and leaves the source
\* unchanged.
C14_CopyPreservesAddress ==
    [][CopyOrConvertCall =>
          LET i == last'.args[1]
              j == last'.args[2]
          IN /\ j \in DOMAIN refs /\ refs'[j] = refs[j]
             /\ as_pointer(refs'[i]) = as_pointer(refs[j])
             /\ has_value(refs'[i]) = has_value(refs[j])
             /\ Empty(refs[j]) => Empty(refs'[i])]_vars
\* A Present view was converted to a view over another type.
C14_Witness ==
    /\ last.op = "optional_ref(optional_ref<U>)"
    /\ Present(refs[last.args[2]])
    /\ refs[last.args[1]].T # refs[last.args[2]].T
    /\ refs[last.args[1]].ptr = refs[last.args[2]].ptr

CopiedReferent == last.out.kind = "ret" /\ last.out.copied

\* C16 as stated: as_optional() is the one operation that copies the
\* referent; no other operation, value_or included, does.
C16_OnlyAsOptionalCopies == CopiedReferent => last.op = "as_optional"

\* C16, amended: as_optional() and value_or() are the operations that copy
\* the referent, each only on a Present instance; construction, copying or
\* converting the view, has_value, value, operator*, operator->, as_pointer
\* and every comparison never do.
C16_CopyingOperations ==
    CopiedReferent => last.op \in {"as_optional", "value_or"} /\ Present(Self)
\* as_optional<std::decay_t<T>>() on a Present instance made a copy.
C16_Witness ==
    /\ last.op = "as_optional" /\ last.args[2] = "decay_t"
    /\ Present(Self) /\ CopiedReferent

\* C17: no operation of optional_ref modifies or destroys the referent:
\* across every construction, copy, conversion, observer, comparison and
\* end of scope the objects and containers exist as before with the same
\* values.
C17_ReferentUntouched ==
    [][mem' = mem /\ opts' = opts /\ LiveAddrs' = LiveAddrs]_vars
\* One of two views of an object went out of scope; the object still holds
\* the value it was created with.
C17_Witness ==
    /\ last.op = "~optional_ref"
    /\ \E j \in DOMAIN refs :
          /\ j # last.args[1]
          /\ Present(refs[j])
          /\ refs[j].ptr \in LiveAddrs
          /\ Referent(refs[j]) = InitialValue(refs[j].ptr)

\* C18: has_value() and as_pointer() always return, agree with each other
\* (has_value() is true iff as_pointer() is not null), as_pointer() returns
\* the stored address verbatim (null on Empty), and neither changes the view,
\* the objects or the containers.
C18_ConsistentObservers ==
    [][last'.op \in {"has_value", "as_pointer"} =>
          LET r == refs[last'.args[1]]
          IN /\ refs' = refs /\ mem' = mem /\ opts' = opts
             /\ last'.out.kind = "ret"
             /\ last'.op = "has_value" =>
                   /\ last'.out.val = Present(r)
                   /\ last'.out.val = (as_pointer(r) # nullptr)
             /\ last'.op = "as_pointer" =>
                   /\ last'.out.val = r.ptr
                   /\ Empty(r) => last'.out.val = nullptr
                   /\ has_value(r) <=> last'.out.val # nullptr]_vars
\* has_value() answered false on an Empty instance.
C18_Witness == last.op = "has_value" /\ Empty(Self) /\ last.out = Ret(FALSE)

\* Every constructor of optional_ref.
Constructors ==
    {"optional_ref()", "optional_ref(nullopt)", "optional_ref(T&)",
     "optional_ref(const optional&)", "optional_ref(optional&)",
     "optional_ref(T*)", "optional_ref(const optional_ref&)",
     "optional_ref(optional_ref<U>)"}
\* For a pointer-valued T (the value nullptr of T is 0): a view constructed
\* from an object that holds a null pointer is Present, its referent is that
\* null pointer, it equals the value nullptr and differs from std::nullopt.
NullValueIsPresent ==
    (last.op = "optional_ref(T&)" /\ mem[last.args[2]] = nullptr) =>
        /\ Present(Self)
        /\ Referent(Self) = nullptr
        /\ EqRefVal(Self, nullptr) = {Ret(TRUE)}
        /\ EqRefNullopt(Self) = {Ret(FALSE)}
\* The view just constructed came from the empty marker, from default
\* construction or from a null T*.
FromEmptyMarkerOrNullPointer ==
    \/ last.op \in {"optional_ref()", "optional_ref(nullopt)"}
    \/ last.op = "optional_ref(T*)" /\ last.args[2] = nullptr

\* C19 as stated: a null pointer value held by the object gives a Present
\* view, and only the empty marker, default construction or a null T* give
\* an Empty one.
C19_OnlyThreeWaysToEmpty ==
    /\ NullValueIsPresent
    /\ (last.op \in Constructors /\ Empty(Self)) => FromEmptyMarkerOrNullPointer

\* C19, amended: a null pointer value held by the object gives a Present
\* view; an Empty view comes only from the empty marker, default
\* construction, a null T*, an empty container, or the copy or conversion of
\* an Empty view.
C19_NullValueIsNotEmpty ==
    /\ NullValueIsPresent
    /\ (last.op \in Constructors /\ Empty(Self)) =>
          \/ FromEmptyMarkerOrNullPointer
          \/ /\ last.op \in {"optional_ref(const optional&)", "optional_ref(optional&)"}
             /\ ~opts[last.args[2]]
          \/ /\ last.op \in {"optional_ref(const optional_ref&)",
                             "optional_ref(optional_ref<U>)"}
             /\ Empty(refs[last.args[2]])
\* A view was constructed from an object holding a null pointer value.
C19_Witness ==
    /\ last.op = "optional_ref(T&)" /\ mem[last.args[2]] = nullptr
    /\ Present(Self) /\ Referent(Self) = nullptr

\* C20: for every T, construction from the literal nullptr is not part of
\* any program: it is never accepted, so it produces no Empty instance and
\* no runtime outcome.
C20_NullptrLiteralRejected ==
    /\ \A i \in Slots, T \in Types :
          ~ENABLED ConstructFromPointer(i, T, nullptr, "nullptr_t")
    /\ last.op = "optional_ref(T*)" => last.args[3] # "nullptr_t"
\* A null pointer variable was accepted and gave an Empty instance; the
\* literal in its place is rejected.
C20_Witness ==
    /\ last.op = "optional_ref(T*)" /\ last.args[2] = nullptr /\ Empty(Self)
    /\ \E i \in Slots \ DOMAIN refs :
          /\ ENABLED ConstructFromPointer(i, Self.T, nullptr, "T*")
          /\ ~ENABLED ConstructFromPointer(i, Self.T, nullptr, "nullptr_t")

\* C21: readers need no coordination.  While the referent is not written,
\* in every interleaving of the readers' copies, observers and comparisons a
\* reader holds the address the view was constructed with and gets the one
\* result its call has when run alone, because no call writes to the view.
C21_ReadersNeedNoCoordination ==
    \A t \in Threads :
        /\ threads[t].pc = "loaded" => threads[t].ptr = refs["a"].ptr
        /\ (threads[t].pc = "ready" /\ threads[t].op # "none") =>
              Invoke(threads[t].op, threads[t].arg, refs["a"]) = {threads[t].out}
\* One reader finished a copy of a Present view while the other is between
\* loading the address and returning the value.
C21_Witness ==
    /\ "a" \in DOMAIN refs /\ Present(refs["a"])
    /\ threads["t1"].pc = "ready"
    /\ threads["t1"].op = "optional_ref(const optional_ref&)"
    /\ threads["t2"].pc = "loaded" /\ threads["t2"].op = "value"


\* The outcomes of every comparison that can be written over the views a, b
\* and the value v.
Comparisons(a, b, v) ==
    {EqRefNullopt(a), EqNulloptRef(a), NeRefNullopt(a), NeNulloptRef(a),
     EqRefRef(a, b), NeRefRef(a, b),
     EqRefVal(a, v), EqValRef(v, a), NeRefVal(a, v), NeValRef(v, a)}

\* C22: no comparison dereferences an Empty operand: in every combination
\* of Empty and Present operands, in hardened and plain builds alike, each
\* ==/!= returns one definite answer, never the hardening abort and never
\* the undefined read of a null address.
C22_ComparisonsNeverDereferenceEmpty ==
    /\ \A i \in DOMAIN refs, j \in DOMAIN refs, v \in Values :
          \A S \in Comparisons(refs[i], refs[j], v) :
              Cardinality(S) = 1 /\ \A o \in S : o.kind = "ret"
    /\ last.op \in {"ref==nullopt", "nullopt==ref", "ref!=nullopt", "nullopt!=ref",
                    "ref==ref", "ref!=ref", "val==ref", "ref==val", "val!=ref",
                    "ref!=val"} => last.out.kind = "ret"
\* In a hardened build an Empty view was compared with a Present one.
C22_Witness ==
    /\ hardened
    /\ last.op = "ref==ref"
    /\ Empty(refs[last.args[1]]) /\ Present(refs[last.args[2]])
    /\ last.out = Ret(FALSE)


\* The container a.as_optional() returns.
AsOptionalOf(a) == (CHOOSE o \in as_optional(a, "decay_t") : TRUE).val

\* C23: over equality-comparable types the view compares as the container
\* it converts to: a == b answers as a.as_optional() == b.as_optional(),
\* a == v as a.as_optional() == v, and a == nullopt as
\* a.as_optional() == nullopt, with std::optional's comparisons.
C23_ComparesAsOptional ==
    /\ \A i \in DOMAIN refs : Cardinality(as_optional(refs[i], "decay_t")) = 1
    /\ \A i \in DOMAIN refs, j \in DOMAIN refs :
          EqRefRef(refs[i], refs[j]) =
              {Ret(StdOptionalEq(AsOptionalOf(refs[i]), AsOptionalOf(refs[j])))}
    /\ \A i \in DOMAIN refs, v \in Values :
          EqRefVal(refs[i], v) = {Ret(StdOptionalEqValue(AsOptionalOf(refs[i]), v))}
    /\ \A i \in DOMAIN refs :
          EqRefNullopt(refs[i]) = {Ret(StdOptionalEqNullopt(AsOptionalOf(refs[i])))}
    /\ last.op = "ref==ref" =>
          last.out.val = StdOptionalEq(AsOptionalOf(refs[last.args[1]]),
                                       AsOptionalOf(refs[last.args[2]]))
    /\ last.op = "ref==val" =>
          last.out.val = StdOptionalEqValue(AsOptionalOf(Self), last.args[2])
    /\ last.op = "ref==nullopt" =>
          last.out.val = StdOptionalEqNullopt(AsOptionalOf(Self))
\* A Present view was compared with a value other than its referent's; its
\* container compares unequal to that value too.
C23_Witness ==
    /\ last.op = "ref==val" /\ Present(Self)
    /\ last.args[2] # Referent(Self)
    /\ last.out = Ret(FALSE)
    /\ ~StdOptionalEqValue(AsOptionalOf(Self), last.args[2])


\* C24: with a symmetric == on the referents, equality does not depend on
\* operand order: a == b answers as b == a and a == v as v == a in every
\* combination of Empty and Present, and a == a is true when a is Empty or
\* its referent equals itself.
C24_EqualityIsSymmetric ==
    /\ \A i \in DOMAIN refs, j \in DOMAIN refs :
          EqRefRef(refs[i], refs[j]) = EqRefRef(refs[j], refs[i])
    /\ \A i \in DOMAIN refs, v \in Values :
          EqRefVal(refs[i], v) = EqValRef(v, refs[i])
    /\ \A i \in DOMAIN refs :
          (Empty(refs[i]) \/ Referent(refs[i]) = Referent(refs[i])) =>
              EqRefRef(refs[i], refs[i]) = {Ret(TRUE)}
    /\ last.op = "ref==ref" =>
          EqRefRef(refs[last.args[2]], refs[last.args[1]]) = {last.out}
    /\ last.op = "ref==val" => EqValRef(last.args[2], Self) = {last.out}
\* A Present view was compared with an Empty one, in that order; the answer
\* is the one the opposite order gives.
C24_Witness ==
    /\ last.op = "ref==ref"
    /\ Present(refs[last.args[1]]) /\ Empty(refs[last.args[2]])
    /\ EqRefRef(refs[last.args[2]], refs[last.args[1]]) = {last.out}
====
